---- MODULE Spec2Model ----
(***************************************************************************)
(* The switch-toggle fan-out of the Rhapsody24 server:                     *)
(*   services/switchboard_api_service.py  (grouping, dispatch, write-back) *)
(*   crud/switch_crud.py, crud/switchboard_crud.py  (the two stores)       *)
(* One call of process_toggle_request runs against a store that other      *)
(* request handlers may change while the call is suspended in its await.   *)
(*                                                                         *)
(* Python values are modelled as follows.  A dict is a sequence of         *)
(* <<key, value>> pairs in insertion order (Python dicts iterate in        *)
(* insertion order; assigning to an existing key keeps its place).  A      *)
(* formatted message is a record holding the format string and its         *)
(* arguments.  A query's .first() is the set of rows it may return (the    *)
(* query has no ORDER BY); the empty set is None.  A raised exception is a *)
(* string naming it; NoExc means that nothing was raised.  A commit of the  *)
(* database either returns or raises; which of the two is an input of the  *)
(* operation that commits.                                                 *)
(***************************************************************************)
EXTENDS Integers, Sequences, FiniteSets, TLC

\* ------------------------------------------------------------- bounds
\* Switch ids range over 1..MaxSwitchId (ids of rows and of request keys).
MaxSwitchId == 2
\* How many operations of other handlers may interleave with one call.
MaxEnvOps == 1
\* How many times in a row a client may send its batch.
MaxCalls == 2
\* How many switches a request to the toggle route that comes during a call
\* may name.
MaxRouteLen == 1
\* How many operations in a row are run on a table outside any call.
MaxCrudOps == 1

SwitchIds == 1..MaxSwitchId
SwitchboardIds == {"sb1", "sb2"}
\* Switch.switchboard_id is nullable: None after the owning board was deleted.
NoSb == "None"
Positions == {1, 2}
NoExc == "none"

\* ------------------------------------------------------------- Python helpers
\* The numbers of the keys of a dict d (a sequence of <<key, value>>) equal to k.
DictIdx(d, k) == {i \in 1..Len(d) : d[i][1] = k}

DictHas(d, k) == DictIdx(d, k) # {}

\* d[k] for a key that is present.
DictGet(d, k) == d[CHOOSE i \in DictIdx(d, k) : TRUE][2]

\* A variant of DictSet that leaves the value of an existing key as it is.
DictSetKeepsFirst(d, k, v) == IF DictHas(d, k) THEN d ELSE Append(d, <<k, v>>)

\* d[k] = v: an existing key keeps its place, a new key goes to the end.
DictSet(d, k, v) ==
    IF DictHas(d, k)
    THEN [i \in 1..Len(d) |-> IF d[i][1] = k THEN <<k, v>> ELSE d[i]]
    ELSE Append(d, <<k, v>>)

DictKeys(d) == {d[i][1] : i \in 1..Len(d)}

\* ------------------------------------------------------------- the nickname table
switchs_nicknames ==
    <<"relay1", "relay2", "relay3", "relay4", "relay5", "relay6", "relay7", "relay8">>

\* list[i] of Python for a 0-based i: a negative i counts from the end, and an
\* i outside -len..len-1 raises IndexError.
PyIndexOk(list, i) == -Len(list) <= i /\ i < Len(list)

PyIndex(list, i) == IF i >= 0 THEN list[i + 1] ELSE list[Len(list) + i + 1]

\* list.index(x), 0-based, for an x that is in the list.
PyListIndex(list, x) == (CHOOSE i \in 1..Len(list) : list[i] = x) - 1

\* ------------------------------------------------------------- the stores
\* db.query(Switch).filter_by(id=switch_id).first()
get_switch(db, switch_id) == IF switch_id \in DOMAIN db THEN {switch_id} ELSE {}

Exc400BadRequest ==
    "HTTPException(400, Bad request. You must provide a switch_id or a switchboard_id and a switch_position.)"

\* switch_crud.get_switch(db, switchboard_id=..., position=...): with a
\* switchboard_id of None it raises the 400 (the position its callers pass is
\* an index plus one, never None); otherwise rows is what the query matches,
\* of which first() returns one, or None when there is none.
get_switch_by_position(db, switchboard_id, position) ==
    IF switchboard_id = NoSb
    THEN [exc |-> Exc400BadRequest, rows |-> {}]
    ELSE [exc |-> NoExc,
          rows |-> {s \in DOMAIN db :
                      db[s].switchboard_id = switchboard_id /\ db[s].position = position}]

Exc404Switchboard == "HTTPException(404, Switchboard not found)"

\* switchboard_crud.get_switchboard: raises when the row is missing (it never
\* returns None).
get_switchboard(boards, switchboard_id) ==
    IF switchboard_id \in DOMAIN boards
    THEN [exc |-> NoExc, id |-> switchboard_id]
    ELSE [exc |-> Exc404Switchboard, id |-> NoSb]

Exc404Switch == "HTTPException(404, Switch with ID {switch_id} not found.)"
Exc403Locked == "HTTPException(403, Switch state is locked and cannot be updated.)"
Exc500Toggle == "HTTPException(500, Something went wrong : {e})"

\* Every operation below that commits takes commit_ok: whether db.commit()
\* returns (TRUE) or raises (FALSE); in the second case the operation rolls
\* back, which leaves the table as it was, and raises its 500.

\* A variant of toggle that returns without raising for an unknown id.
toggleIgnoresMissing(db, switch_id, state, commit_ok) ==
    IF switch_id \notin DOMAIN db
    THEN [exc |-> NoExc, switchs |-> db]
    ELSE IF db[switch_id].locked = FALSE
         THEN IF commit_ok
              THEN [exc |-> NoExc, switchs |-> [db EXCEPT ![switch_id].state = state]]
              ELSE [exc |-> Exc500Toggle, switchs |-> db]
         ELSE [exc |-> Exc403Locked, switchs |-> db]

\* A variant of toggle that assigns the lock flag along with the state.
toggleWritesLock(db, switch_id, state, commit_ok) ==
    IF switch_id \notin DOMAIN db
    THEN [exc |-> Exc404Switch, switchs |-> db]
    ELSE IF db[switch_id].locked = FALSE
         THEN IF commit_ok
              THEN [exc |-> NoExc,
                    switchs |-> [db EXCEPT ![switch_id].state = state,
                                           ![switch_id].locked = state]]
              ELSE [exc |-> Exc500Toggle, switchs |-> db]
         ELSE [exc |-> Exc403Locked, switchs |-> db]

\* A variant of toggle that flips the state instead of setting it.
toggleFlips(db, switch_id, state, commit_ok) ==
    IF switch_id \notin DOMAIN db
    THEN [exc |-> Exc404Switch, switchs |-> db]
    ELSE IF db[switch_id].locked = FALSE
         THEN IF commit_ok
              THEN [exc |-> NoExc, switchs |-> [db EXCEPT ![switch_id].state = ~@]]
              ELSE [exc |-> Exc500Toggle, switchs |-> db]
         ELSE [exc |-> Exc403Locked, switchs |-> db]

\* switch_crud.toggle
toggle(db, switch_id, state, commit_ok) ==
    IF switch_id \notin DOMAIN db
    THEN [exc |-> Exc404Switch, switchs |-> db]
    ELSE IF db[switch_id].locked = FALSE
         THEN IF commit_ok
              THEN [exc |-> NoExc, switchs |-> [db EXCEPT ![switch_id].state = state]]
              ELSE [exc |-> Exc500Toggle, switchs |-> db]
         ELSE [exc |-> Exc403Locked, switchs |-> db]

Exc404SwitchLock(switch_id) ==
    <<"HTTPException(404, Switch with ID {switch_id} cannot be found)", switch_id>>

Exc500Lock(switch_id) ==
    <<"HTTPException(500, Failed to save 'lock' state in the database for switch with ID {db_switch.id})",
      switch_id>>

\* switch_crud.lock
lock(db, switch_id, lock_state, commit_ok) ==
    IF get_switch(db, switch_id) = {}
    THEN [exc |-> Exc404SwitchLock(switch_id), switchs |-> db]
    ELSE IF commit_ok
    THEN [exc |-> NoExc, switchs |-> [db EXCEPT ![switch_id].locked = lock_state]]
    ELSE [exc |-> Exc500Lock(switch_id), switchs |-> db]

ErrLockNotModified(switch_id, e) ==
    [msg |-> "Switch {switch_id} lock state was not modified : {e}",
     switch_id |-> switch_id, e |-> e]

\* A variant of LockPair with no try around the call: the exception leaves
\* the route.
LockPairUnguarded(out, switch_id, lock_state, commit_ok) ==
    LET l == lock(out.switchs, switch_id, lock_state, commit_ok)
    IN [out EXCEPT !.switchs = l.switchs, !.exc = l.exc]

\* One pass of the loop of the lock route: the call of lock in its try, and
\* the except that turns any exception into one more error.
LockPair(out, switch_id, lock_state, commit_ok) ==
    LET l == lock(out.switchs, switch_id, lock_state, commit_ok)
    IN IF l.exc # NoExc
       THEN [out EXCEPT !.errors = Append(@, ErrLockNotModified(switch_id, l.exc))]
       ELSE [out EXCEPT !.switchs = l.switchs]

\* The loop of the lock route from the i-th pair; commits[i] is the outcome of
\* the commit of the i-th call of lock.
RECURSIVE LockLoop(_, _, _, _)
LockLoop(req, commits, i, out) ==
    IF i > Len(req) \/ out.exc # NoExc
    THEN out
    ELSE LockLoop(req, commits, i + 1, LockPair(out, req[i][1], req[i][2], commits[i]))

\* routes/switch_routes.py lock_switch, on a dict[int, bool].
lock_switch(db, req, commits) ==
    LockLoop(req, commits, 1, [exc |-> NoExc, switchs |-> db, errors |-> <<>>])

Exc404SwitchUpdate == "HTTPException(404, Switch not found)"
Exc400NoData == "HTTPException(400, Bad request. You must provide valid data to update the switch)"
Exc500Update == "HTTPException(500, Failed to update switch)"

\* for var, value in update_data.items(): setattr(db_switch, var, value)
RECURSIVE SetAttrs(_, _, _)
SetAttrs(row, update_data, i) ==
    IF i > Len(update_data)
    THEN row
    ELSE SetAttrs([row EXCEPT ![update_data[i][1]] = update_data[i][2]], update_data, i + 1)

\* switch_crud.update_switch; update_data is switch_update.dict(exclude_unset=True).
update_switch(db, switch_id, update_data, commit_ok) ==
    IF get_switch(db, switch_id) = {}
    THEN [exc |-> Exc404SwitchUpdate, switchs |-> db]
    ELSE IF update_data = <<>>
    THEN [exc |-> Exc400NoData, switchs |-> db]
    ELSE IF commit_ok
    THEN [exc |-> NoExc,
          switchs |-> [db EXCEPT ![switch_id] = SetAttrs(@, update_data, 1)]]
    ELSE [exc |-> Exc500Update, switchs |-> db]

Exc500Create == "HTTPException(500, Failed to create a switch)"

\* Switch.id is an autoincrement primary key: the database keeps a counter
\* and gives its value, above every id given so far, to the new row; the id
\* of a deleted row is not given again.  These are the values the counter may
\* have on table db.
NextIds(db) == {n \in 1..(MaxSwitchId + 1) : \A s \in DOMAIN db : s < n}

\* The id after the greatest of table db: what an engine that keeps no counter
\* (a rowid) gives to the next row.
IdAfter(db) == CHOOSE n \in NextIds(db) : \A m \in NextIds(db) : n <= m

\* switch_crud.create_switch with the counter at id: the row gets name,
\* position, state and switchboard_id from the body; locked is not passed on
\* and takes the column's default.  A rollback leaves the counter as it was.
create_switch(db, id, switch, commit_ok) ==
    IF commit_ok
    THEN [exc |-> NoExc,
          next_id |-> id + 1,
          switchs |-> [s \in DOMAIN db \cup {id} |->
                          IF s \in DOMAIN db
                          THEN db[s]
                          ELSE [position |-> switch.position, state |-> switch.state,
                                locked |-> FALSE, switchboard_id |-> switch.switchboard_id]]]
    ELSE [exc |-> Exc500Create, next_id |-> id, switchs |-> db]

\* switch_crud.delete_switch.  Its commit is in no try: when the commit raises
\* the table stays as it was, which is what the delete of an unknown id gives.
delete_switch(db, switch_id) == [s \in DOMAIN db \ {switch_id} |-> db[s]]

\* The values the next id may have after delete_switch(db, switch_id), id
\* being its value before: the counter's, which a delete leaves, and, where
\* id is what a rowid gives on db, what a rowid gives on the table left.
NextIdsAfterDelete(db, id, switch_id) ==
    {id} \cup (IF id = IdAfter(db) THEN {IdAfter(delete_switch(db, switch_id))} ELSE {})

\* switchboard_crud.delete_switchboard: the row goes; Switchboard.switchs is a
\* relationship without delete cascade, so the ORM sets the switchboard_id of
\* the board's switches to NULL.
delete_switchboard_rows(boards, switchboard_id) ==
    [b \in DOMAIN boards \ {switchboard_id} |-> boards[b]]

delete_switchboard_switchs(db, switchboard_id) ==
    [s \in DOMAIN db |->
        IF db[s].switchboard_id = switchboard_id
        THEN [db[s] EXCEPT !.switchboard_id = NoSb]
        ELSE db[s]]

Exc500SwitchboardUpdate == "HTTPException(500, Something went wrong: {e})"

\* switchboard_crud.update_switchboard with a body that gives ip_address (the
\* fields of the body that are None are skipped; of the fields of a
\* switchboard only ip_address is read by the toggle calls).
update_switchboard(boards, switchboard_id, ip_address, commit_ok) ==
    IF switchboard_id \notin DOMAIN boards
    THEN [exc |-> Exc404Switchboard, switchboards |-> boards]
    ELSE IF commit_ok
    THEN [exc |-> NoExc,
          switchboards |-> [boards EXCEPT ![switchboard_id].ip_address = ip_address]]
    ELSE [exc |-> Exc500SwitchboardUpdate, switchboards |-> boards]

Exc500SwitchboardCreate == "HTTPException(500, Something went wrong)"

\* switchboard_crud.create_switchboard: the id comes from the body; the commit
\* of a row whose id is taken fails on the primary key.
create_switchboard(boards, switchboard_id, ip_address, commit_ok) ==
    IF commit_ok /\ switchboard_id \notin DOMAIN boards
    THEN [exc |-> NoExc,
          switchboards |-> [b \in DOMAIN boards \cup {switchboard_id} |->
                               IF b \in DOMAIN boards
                               THEN boards[b]
                               ELSE [ip_address |-> ip_address]]]
    ELSE [exc |-> Exc500SwitchboardCreate, switchboards |-> boards]

\* ------------------------------------------------------------- grouping
ErrSwitchNotFound(switch_id) ==
    [msg |-> "Switch with id {switch_id} not found.", switch_id |-> switch_id]

ErrSwitchLocked(switch_id) ==
    [msg |-> "Switch with id {switch_id} is locked and cannot be toggled.",
     switch_id |-> switch_id]

ErrSwitchboardNotFound(switchboard_id) ==
    [msg |-> "Switchboard with id {db_switch.switchboard_id} not found.",
     switchboard_id |-> switchboard_id]

\* A variant of StrState that formats the boolean as Python's str does.
StrStateOfBool(state) == IF state THEN "True" ELSE "False"

StrState(state) == IF state THEN "ON" ELSE "OFF"

\* switchs_by_switchboard[sb][nickname] = str_state on the nested defaultdict
GroupSet(map, sb, nickname, str_state) ==
    DictSet(map, sb, DictSet(IF DictHas(map, sb) THEN DictGet(map, sb) ELSE <<>>,
                             nickname, str_state))

\* What the loop of build_switchs_by_switchboard carries from pair to pair: the
\* grouped payloads, the errors, and the exception that ended it (if any).
NoAcc == [exc |-> NoExc, map |-> <<>>, errors |-> <<>>]

Raise(acc, e) == [acc EXCEPT !.exc = e]

\* A variant of SwitchNotFound that raises for the unknown id, as
\* get_switchboard does for an unknown switchboard, instead of recording it.
SwitchNotFoundRaises(acc, switch_id) == Raise(acc, Exc404Switch)

\* The branch of an unknown switch id: the error is appended, then continue.
SwitchNotFound(acc, switch_id) ==
    [acc EXCEPT !.errors = Append(@, ErrSwitchNotFound(switch_id))]

\* The branch of a locked switch: the error is appended and the loop body goes
\* on (there is no continue).
SwitchLocked(acc, switch_id) ==
    [acc EXCEPT !.errors = Append(@, ErrSwitchLocked(switch_id))]

\* The branch of a switchboard that get_switchboard returned as None.
SwitchboardNotFound(acc, switchboard_id) ==
    [acc EXCEPT !.errors = Append(@, ErrSwitchboardNotFound(switchboard_id))]

\* The end of the loop body: the nickname of the position, the state as a
\* string, and the entry under the switchboard.
AddSwitch(acc, switchboard_id, position, state) ==
    IF ~PyIndexOk(switchs_nicknames, position - 1)
    THEN Raise(acc, "IndexError")
    ELSE [acc EXCEPT !.map = GroupSet(@, switchboard_id,
                                      PyIndex(switchs_nicknames, position - 1),
                                      StrState(state))]

\* The loop body from the switchboard lookup on, for a switch that exists.
ResolveSwitchboard(boards, acc, db_switch, state) ==
    LET db_switchboard == get_switchboard(boards, db_switch.switchboard_id)
    IN IF db_switchboard.exc # NoExc
       THEN Raise(acc, db_switchboard.exc)
       ELSE IF db_switchboard.id = NoSb
       THEN SwitchboardNotFound(acc, db_switch.switchboard_id)
       ELSE AddSwitch(acc, db_switchboard.id, db_switch.position, state)

\* One pass of the loop body of build_switchs_by_switchboard.
BuildPair(db, boards, acc, switch_id, state) ==
    IF get_switch(db, switch_id) = {}
    THEN SwitchNotFound(acc, switch_id)
    ELSE ResolveSwitchboard(boards,
                            IF db[switch_id].locked = TRUE
                            THEN SwitchLocked(acc, switch_id)
                            ELSE acc,
                            db[switch_id], state)

\* The loop from the i-th pair of the request; an exception ends it.
RECURSIVE BuildLoop(_, _, _, _, _)
BuildLoop(db, boards, req, i, acc) ==
    IF i > Len(req) \/ acc.exc # NoExc
    THEN acc
    ELSE BuildLoop(db, boards, req, i + 1,
                   BuildPair(db, boards, acc, req[i][1], req[i][2]))

build_switchs_by_switchboard(db, boards, req) == BuildLoop(db, boards, req, 1, NoAcc)

\* ------------------------------------------------------------- dispatch
\* What the device, or the network, answers to one POST.
StatusCodes == {200, 204, 302, 500}

Responses ==
    {[kind |-> "response", status_code |-> c] : c \in StatusCodes}
    \cup {[kind |-> k, status_code |-> 0] : k \in {"timeout", "network_error"}}

\* One answer of each kind: a status that raise_for_status accepts, one for
\* which it raises, and an exception of the transport.
ResponseKinds ==
    {[kind |-> "response", status_code |-> c] : c \in {200, 500}}
    \cup {[kind |-> "timeout", status_code |-> 0]}

\* A variant of IsSuccessStatus for which only the 4xx and 5xx are errors.
IsSuccessStatusBelow400(status_code) == status_code < 400

\* response.raise_for_status() returns for a 2xx status and raises otherwise.
IsSuccessStatus(status_code) == 200 <= status_code /\ status_code <= 299

\* str(e) of the exception the try block of send_switchboard_request catches.
ErrorText(resp) ==
    IF resp.kind = "response" THEN <<"HTTPStatusError", resp.status_code>>
    ELSE IF resp.kind = "timeout" THEN <<"TimeoutException", 0>>
    ELSE <<"ConnectError", 0>>

Endpoint(boards, switchboard_id) == <<"http://", boards[switchboard_id].ip_address, "/control">>

\* A variant of RequestResult whose failure is the dict of the lookup branch,
\* which has no payload.
RequestResultBare(switchboard_id, payload, resp) ==
    IF resp.kind = "response" /\ IsSuccessStatus(resp.status_code)
    THEN [switchboard_id |-> switchboard_id, status |-> "success",
          response_status_code |-> resp.status_code, payload_sent |-> payload]
    ELSE [switchboard_id |-> switchboard_id, status |-> "failed",
          error |-> ErrorText(resp)]

\* The try block of send_switchboard_request, once the POST has an answer.
RequestResult(switchboard_id, payload, resp) ==
    IF resp.kind = "response" /\ IsSuccessStatus(resp.status_code)
    THEN [switchboard_id |-> switchboard_id, status |-> "success",
          response_status_code |-> resp.status_code, payload_sent |-> payload]
    ELSE [switchboard_id |-> switchboard_id, status |-> "failed",
          error |-> ErrorText(resp), payload_sent |-> payload]

NoResult == [status |-> "pending"]

\* A task whose POST has had no answer (yet).
NoResponse == [kind |-> "none", status_code |-> 0]

\* One task per item of switchs_by_switchboard, in the dict's order.
MakeTasks(map) ==
    [i \in 1..Len(map) |->
        [switchboard_id |-> map[i][1], switchs |-> map[i][2],
         phase |-> "created", response |-> NoResponse, result |-> NoResult, order |-> 0]]

\* How many tasks have ended, with a result or with an exception.
NumEnded(ts) == Cardinality({i \in 1..Len(ts) : ts[i].phase \in {"done", "raised"}})

\* gather raises in the call the exception of the first task that ended with
\* one; the tasks that have not ended go on.
GatherRaises(ts) == \E i \in 1..Len(ts) : ts[i].phase = "raised"

FirstRaised(ts) ==
    CHOOSE i \in 1..Len(ts) :
        /\ ts[i].phase = "raised"
        /\ \A j \in 1..Len(ts) : ts[j].phase = "raised" => ts[i].order <= ts[j].order

\* A variant of GatherReturns that hands back as soon as one task has ended.
GatherReturnsEarly(ts) == ts = <<>> \/ \E i \in 1..Len(ts) : ts[i].phase = "done"

\* await asyncio.gather(*tasks) returns once every task has ended with a result.
GatherReturns(ts) == \A i \in 1..Len(ts) : ts[i].phase = "done"

\* A variant of GatherResults that lists the results as the tasks ended.
GatherResultsAsCompleted(ts) ==
    [k \in 1..Len(ts) |-> ts[CHOOSE i \in 1..Len(ts) : ts[i].order = k].result]

\* What gather returns: the results in the order of the tasks it was given,
\* whatever the order in which they ended.
GatherResults(ts) == [i \in 1..Len(ts) |-> ts[i].result]

\* A variant of SelectStatus that forgets to look at the status.
SelectStatusAll(results, wanted) == results

\* The loop after gather, for one of its two lists (wanted: the successes, or
\* the rest); the results keep the order of the tasks.
SelectStatus(results, wanted) == SelectSeq(results, LAMBDA res : (res.status = "success") = wanted)

\* ------------------------------------------------------------- write-back
ErrReconcileMiss(switch, switchboard_id) ==
    [msg |-> "Switch associated with nickname {switch} associated with switchboard {switchboard_id} not found in the database.",
     switch |-> switch, switchboard_id |-> switchboard_id]

\* The inner loop of update_database from the i-th item of one switchboard's
\* payload: the set of the outcomes it may have, one per row that first() may
\* return.
RECURSIVE UpdateSwitchs(_, _, _, _, _)
UpdateSwitchs(db, switchboard_id, switchs, i, errors) ==
    IF i > Len(switchs)
    THEN {[exc |-> NoExc, switchs |-> db, errors |-> errors]}
    ELSE LET switch == switchs[i][1]
             state == switchs[i][2]
             found == get_switch_by_position(db, switchboard_id,
                                             PyListIndex(switchs_nicknames, switch) + 1)
         IN IF found.exc # NoExc
            THEN {[exc |-> found.exc, switchs |-> db, errors |-> errors]}
            ELSE IF found.rows = {}
            THEN UpdateSwitchs(db, switchboard_id, switchs, i + 1,
                               Append(errors, ErrReconcileMiss(switch, switchboard_id)))
            ELSE IF state \notin {"ON", "OFF"}
            THEN {[exc |-> "TypeError", switchs |-> db, errors |-> errors]}
            ELSE UNION {
                   LET t == toggle(db, db_switch, state = "ON", commit_ok)
                   IN IF t.exc # NoExc
                      THEN {[exc |-> t.exc, switchs |-> db, errors |-> errors]}
                      ELSE UpdateSwitchs(t.switchs, switchboard_id, switchs, i + 1, errors)
                   : db_switch \in found.rows, commit_ok \in BOOLEAN}

\* The outer loop of update_database from the j-th successful result.
RECURSIVE UpdateLoop(_, _, _, _, _)
UpdateLoop(db, map, success, j, errors) ==
    IF j > Len(success)
    THEN {[exc |-> NoExc, switchs |-> db, errors |-> errors]}
    ELSE LET switchboard_id == success[j].switchboard_id
         IN UNION {
              IF r.exc # NoExc
              THEN {r}
              ELSE UpdateLoop(r.switchs, map, success, j + 1, r.errors)
              : r \in UpdateSwitchs(db, switchboard_id, DictGet(map, switchboard_id), 1, errors)}

update_database(db, map, success) == UpdateLoop(db, map, success, 1, <<>>)

\* A variant of ReportOf that returns the errors of the grouping only.
ReportOfGrouping(build_errors, req_errors, upd_errors) == build_errors

\* The list process_toggle_request returns.
ReportOf(build_errors, req_errors, upd_errors) == build_errors \o req_errors

\* ------------------------------------------------------------- the toggle route
\* routes/switch_routes.py toggle_switchs: the same work done inline and in
\* sequence, with the blocking requests library; it has no await, so no
\* other handler runs during it.
ErrRouteNotFound(switch_id) ==
    [msg |-> "Switch with ID {switch_id} not found", switch_id |-> switch_id]

ErrRouteLocked(switch_id) ==
    [msg |-> "Switch {switch_id} state is locked and cannot be updated",
     switch_id |-> switch_id]

ErrRouteSwitchboard(switch_id) ==
    [msg |-> "Could not find switchboard associated with switch (ID : {switch_id}",
     switch_id |-> switch_id]

ErrRouteRequest(ip_address, text) ==
    [msg |-> "Request error for {db_switchboard.ip_address} : {str(e)}",
     ip_address |-> ip_address, text |-> text]

ErrRouteMiss(switch, switchboard_id) ==
    [msg |-> "Switch with nickname {switch} on switchboard {db_switchboard.id} not found",
     switch |-> switch, switchboard_id |-> switchboard_id]

ErrRouteState(switch) == [msg |-> "Invalid state for switch {switch}", switch |-> switch]

\* One pass of the first loop of the route: each of the three checks ends
\* with continue.
RouteBuildPair(db, boards, acc, switch_id, state) ==
    IF get_switch(db, switch_id) = {}
    THEN [acc EXCEPT !.errors = Append(@, ErrRouteNotFound(switch_id))]
    ELSE IF db[switch_id].locked = TRUE
    THEN [acc EXCEPT !.errors = Append(@, ErrRouteLocked(switch_id))]
    ELSE LET db_switchboard == get_switchboard(boards, db[switch_id].switchboard_id)
         IN IF db_switchboard.exc # NoExc
            THEN Raise(acc, db_switchboard.exc)
            ELSE IF db_switchboard.id = NoSb
            THEN [acc EXCEPT !.errors = Append(@, ErrRouteSwitchboard(switch_id))]
            ELSE AddSwitch(acc, db_switchboard.id, db[switch_id].position, state)

RECURSIVE RouteBuildLoop(_, _, _, _, _)
RouteBuildLoop(db, boards, req, i, acc) ==
    IF i > Len(req) \/ acc.exc # NoExc
    THEN acc
    ELSE RouteBuildLoop(db, boards, req, i + 1,
                        RouteBuildPair(db, boards, acc, req[i][1], req[i][2]))

\* requests' Response.raise_for_status raises for the 4xx and the 5xx only.
RouteIsSuccessStatus(status_code) == ~(400 <= status_code /\ status_code < 600)

\* The inner loop of the route's write-back from the i-th item of a payload:
\* the set of its outcomes, one per row first() may return.
RECURSIVE RouteUpdateSwitchs(_, _, _, _, _)
RouteUpdateSwitchs(db, switchboard_id, switchs, i, errors) ==
    IF i > Len(switchs)
    THEN {[exc |-> NoExc, switchs |-> db, errors |-> errors]}
    ELSE LET switch == switchs[i][1]
             state == switchs[i][2]
             found == get_switch_by_position(db, switchboard_id,
                                             PyListIndex(switchs_nicknames, switch) + 1)
         IN IF found.exc # NoExc
            THEN {[exc |-> found.exc, switchs |-> db, errors |-> errors]}
            ELSE IF found.rows = {}
            THEN RouteUpdateSwitchs(db, switchboard_id, switchs, i + 1,
                                    Append(errors, ErrRouteMiss(switch, switchboard_id)))
            ELSE IF state \notin {"ON", "OFF"}
            THEN RouteUpdateSwitchs(db, switchboard_id, switchs, i + 1,
                                    Append(errors, ErrRouteState(switch)))
            ELSE UNION {
                   LET t == toggle(db, db_switch, state = "ON", commit_ok)
                   IN IF t.exc # NoExc
                      THEN {[exc |-> t.exc, switchs |-> db, errors |-> errors]}
                      ELSE RouteUpdateSwitchs(t.switchs, switchboard_id, switchs, i + 1, errors)
                   : db_switch \in found.rows, commit_ok \in BOOLEAN}

\* The second loop of the route from the j-th switchboard of the map; resp_of
\* gives what each switchboard answers to its POST.
RECURSIVE RouteSendLoop(_, _, _, _, _, _)
RouteSendLoop(db, boards, map, j, out, resp_of) ==
    IF j > Len(map)
    THEN {[out EXCEPT !.switchs = db]}
    ELSE LET switchboard_id == map[j][1]
             payload == map[j][2]
             db_switchboard == get_switchboard(boards, switchboard_id)
             resp == resp_of[switchboard_id]
             sent == [out EXCEPT !.posts =
                         Append(@, [endpoint |-> Endpoint(boards, switchboard_id),
                                    switchboard_id |-> switchboard_id,
                                    json |-> payload])]
         IN IF db_switchboard.exc # NoExc
            THEN {[out EXCEPT !.exc = db_switchboard.exc, !.switchs = db]}
            ELSE IF ~(resp.kind = "response" /\ RouteIsSuccessStatus(resp.status_code))
            THEN RouteSendLoop(db, boards, map, j + 1,
                               [sent EXCEPT !.errors =
                                   Append(@, ErrRouteRequest(boards[switchboard_id].ip_address,
                                                             ErrorText(resp)))],
                               resp_of)
            ELSE UNION {
                   IF u.exc # NoExc
                   THEN {[sent EXCEPT !.exc = u.exc, !.switchs = u.switchs, !.errors = u.errors]}
                   ELSE RouteSendLoop(u.switchs, boards, map, j + 1,
                                      [sent EXCEPT !.errors = u.errors], resp_of)
                   : u \in RouteUpdateSwitchs(db, switchboard_id, payload, 1, sent.errors)}

\* toggle_switchs: the set of the outcomes of one request to the route.
toggle_switchs(db, boards, req, resp_of) ==
    LET b == RouteBuildLoop(db, boards, req, 1, NoAcc)
    IN IF b.exc # NoExc
       THEN {[exc |-> b.exc, switchs |-> db, posts |-> <<>>, errors |-> b.errors]}
       ELSE RouteSendLoop(db, boards, b.map, 1,
                          [exc |-> NoExc, switchs |-> db, posts |-> <<>>, errors |-> b.errors],
                          resp_of)

\* ------------------------------------------------------------- state
VARIABLES
    switchs,                \* the switchs table: id -> row
    switchboards,           \* the switchboards table: id -> row
    request,                \* request_data.switchs of the call, a dict
    pc,                     \* where process_toggle_request is
    switchs_by_switchboard, \* its local: the grouped payloads
    building_errors,        \* its local: the errors of the grouping
    tasks,                  \* the coroutines handed to asyncio.gather
    requests_success,       \* its local: the successful results
    request_errors,         \* its local: the failed results
    update_errors,          \* what update_database returned
    report,                 \* what the call returned
    exc,                    \* what the call raised
    posts,                  \* every POST issued so far, in order
    pre,                    \* the switchs table when the call began
    env_ops,                \* how many other handlers ran during the call
    calls,                  \* how many calls the client has made
    history,                \* the calls that returned before this one
    crud,                   \* the last direct operation on the switchs table
    other,                  \* a second call of process_toggle_request, if any
    route_posts,            \* every POST of the toggle route so far, in order
    next_id                 \* the counter of the ids of the switchs table

vars == <<switchs, switchboards, request, pc, switchs_by_switchboard, building_errors,
          tasks, requests_success, request_errors, update_errors, report, exc, posts,
          pre, env_ops, calls, history, crud, other, route_posts, next_id>>

call_vars == <<pc, switchs_by_switchboard, building_errors, tasks, requests_success,
               request_errors, update_errors, report, exc, posts>>

\* ------------------------------------------------------------- initial states
\* No direct operation on the table has run.
NoCrud == [op |-> "none"]

\* There is no second call.
NoOther == [pc |-> "none"]

\* The rows of the switchs table (name apart).
SwitchRows ==
    [position : Positions, state : BOOLEAN, locked : BOOLEAN,
     switchboard_id : SwitchboardIds \cup {NoSb}]

\* The contents of the switchs table: any rows under any ids.
SwitchTables == UNION {[ids -> SwitchRows] : ids \in SUBSET SwitchIds}

IpAddress(switchboard_id) == <<"ip of", switchboard_id>>

\* A request is a dict[int, bool]: its keys are distinct.
Requests ==
    {r \in UNION {[1..n -> SwitchIds \X BOOLEAN] : n \in 0..MaxSwitchId} :
        \A i, j \in 1..Len(r) : i # j => r[i][1] # r[j][1]}

Init ==
    /\ switchs \in SwitchTables
    /\ switchboards = [b \in SwitchboardIds |-> [ip_address |-> IpAddress(b)]]
    /\ request \in Requests
    /\ pc = "start"
    /\ switchs_by_switchboard = <<>>
    /\ building_errors = <<>>
    /\ tasks = <<>>
    /\ requests_success = <<>>
    /\ request_errors = <<>>
    /\ update_errors = <<>>
    /\ report = <<>>
    /\ exc = NoExc
    /\ posts = <<>>
    /\ pre = switchs
    /\ env_ops = 0
    /\ calls = 1
    /\ history = <<>>
    /\ crud = NoCrud
    /\ other = NoOther
    /\ route_posts = <<>>
    /\ next_id \in NextIds(switchs)

\* ------------------------------------------------------------- the call
\* process_toggle_request up to its await: the grouping, and gather's wrapping
\* of one coroutine per switchboard into a task.
Build ==
    /\ pc = "start"
    /\ LET b == build_switchs_by_switchboard(switchs, switchboards, request)
       IN IF b.exc # NoExc
          THEN /\ pc' = "raised"
               /\ exc' = b.exc
               /\ UNCHANGED <<switchs_by_switchboard, building_errors, tasks>>
          ELSE /\ pc' = "await"
               /\ switchs_by_switchboard' = b.map
               /\ building_errors' = b.errors
               /\ tasks' = MakeTasks(b.map)
               /\ exc' = NoExc
    /\ UNCHANGED <<switchs, switchboards, request, requests_success, request_errors,
                   update_errors, report, posts, pre, env_ops, calls, history, crud, other, route_posts, next_id>>

\* The i-th task runs send_switchboard_request up to the await of the POST.
\* Tasks start in the order gather created them.  An exception of the lookup
\* ends the task; the call, suspended in gather, gets it in a later step of
\* its own (Rethrow).
TaskStart(i) ==
    /\ i \in 1..Len(tasks)
    /\ tasks[i].phase = "created"
    /\ \A j \in 1..(i - 1) : tasks[j].phase # "created"
    /\ LET t == tasks[i]
           db_switchboard == get_switchboard(switchboards, t.switchboard_id)
       IN IF db_switchboard.exc # NoExc
          THEN /\ tasks' = [tasks EXCEPT
                     ![i].phase = "raised",
                     ![i].order = NumEnded(tasks) + 1,
                     ![i].result = [status |-> "raised", exc |-> db_switchboard.exc]]
               /\ UNCHANGED <<pc, exc, posts>>
          ELSE IF db_switchboard.id = NoSb
          THEN /\ tasks' = [tasks EXCEPT
                     ![i].phase = "done",
                     ![i].order = NumEnded(tasks) + 1,
                     ![i].result = [switchboard_id |-> t.switchboard_id, status |-> "failed",
                                    error |-> <<"not found in the database", 0>>]]
               /\ UNCHANGED <<pc, exc, posts>>
          ELSE /\ tasks' = [tasks EXCEPT ![i].phase = "sent"]
               /\ posts' = Append(posts, [endpoint |-> Endpoint(switchboards, t.switchboard_id),
                                          switchboard_id |-> t.switchboard_id,
                                          json |-> t.switchs])
               /\ UNCHANGED <<pc, exc>>
    /\ UNCHANGED <<switchs, switchboards, request, switchs_by_switchboard, building_errors,
                   requests_success, request_errors, update_errors, report, pre, env_ops,
                   calls, history, crud, other, route_posts, next_id>>

\* The POST of the i-th task gets its answer and the task ends with a result.
TaskComplete(i, resp) ==
    /\ i \in 1..Len(tasks)
    /\ tasks[i].phase = "sent"
    /\ tasks' = [tasks EXCEPT
          ![i].phase = "done",
          ![i].order = NumEnded(tasks) + 1,
          ![i].response = resp,
          ![i].result = RequestResult(tasks[i].switchboard_id, tasks[i].switchs, resp)]
    /\ UNCHANGED <<switchs, switchboards, request, pc, switchs_by_switchboard,
                   building_errors, requests_success, request_errors, update_errors,
                   report, exc, posts, pre, env_ops, calls, history, crud, other, route_posts, next_id>>

\* The call resumes from gather with the exception of a task.  The wake-up is
\* queued behind the first step of every task gather created, so all of them
\* have started by then; those still waiting for their answer go on after it.
Rethrow ==
    /\ pc = "await"
    /\ GatherRaises(tasks)
    /\ \A i \in 1..Len(tasks) : tasks[i].phase # "created"
    /\ pc' = "raised"
    /\ exc' = tasks[FirstRaised(tasks)].result.exc
    /\ UNCHANGED <<switchs, switchboards, request, switchs_by_switchboard, building_errors,
                   tasks, requests_success, request_errors, update_errors, report, posts,
                   pre, env_ops, calls, history, crud, other, route_posts, next_id>>

\* gather returns once every task has ended: the results are split, the
\* database is updated and the errors are returned.
Join ==
    /\ pc = "await"
    /\ GatherReturns(tasks)
    /\ LET results == GatherResults(tasks)
           success == SelectStatus(results, TRUE)
           errors == SelectStatus(results, FALSE)
       IN /\ requests_success' = success
          /\ request_errors' = errors
          /\ \E u \in update_database(switchs, switchs_by_switchboard, success) :
                /\ switchs' = u.switchs
                /\ IF u.exc # NoExc
                   THEN /\ pc' = "raised"
                        /\ exc' = u.exc
                        /\ UNCHANGED <<update_errors, report>>
                   ELSE /\ pc' = "returned"
                        /\ update_errors' = u.errors
                        /\ report' = ReportOf(building_errors, errors, u.errors)
                        /\ exc' = NoExc
    /\ UNCHANGED <<switchboards, request, switchs_by_switchboard, building_errors, tasks,
                   posts, pre, env_ops, calls, history, crud, other, route_posts, next_id>>

\* ------------------------------------------------------------- other handlers
\* They run while the call is suspended in its await; each runs to its end
\* in one step (none of them awaits).  A gather of no task is done at once:
\* the call does not suspend there and no other handler runs.
EnvEnabled == pc = "await" /\ tasks # <<>> /\ env_ops < MaxEnvOps

\* The outcomes of the commits of the calls a handler makes for a body of n
\* items.
Commits(n) == [1..n -> BOOLEAN]

\* The bodies of POST /switchs/lock/ that come during a call, their ids in
\* increasing order.
LockBatches ==
    {r \in Requests : \A i, j \in 1..Len(r) : i < j => r[i][1] < r[j][1]}

\* The lock route on a batch of switches.
EnvLock(req, commits) ==
    /\ EnvEnabled
    /\ switchs' = lock_switch(switchs, req, commits).switchs
    /\ env_ops' = env_ops + 1
    /\ UNCHANGED <<switchboards, request, pre, calls, history, crud, other, route_posts, next_id>>
    /\ UNCHANGED call_vars

\* The bodies of PUT /switchs/{id} that give one field; the empty dict is a
\* body with no field.  switchboard_id may be given as null.
UpdateDatas ==
    {<<>>}
    \cup {<<<<"position", v>>>> : v \in Positions}
    \cup {<<<<"state", v>>>> : v \in BOOLEAN}
    \cup {<<<<"locked", v>>>> : v \in BOOLEAN}
    \cup {<<<<"switchboard_id", v>>>> : v \in SwitchboardIds \cup {NoSb}}

\* The update route of a switch.
EnvUpdateSwitch(s, update_data, commit_ok) ==
    /\ EnvEnabled
    /\ switchs' = update_switch(switchs, s, update_data, commit_ok).switchs
    /\ env_ops' = env_ops + 1
    /\ UNCHANGED <<switchboards, request, pre, calls, history, crud, other, route_posts, next_id>>
    /\ UNCHANGED call_vars

\* The bodies of POST /switchs/ (of SwitchCreate, the fields the row gets).
SwitchCreates == [position : Positions, state : BOOLEAN, switchboard_id : SwitchboardIds]

\* The create route of a switch.
EnvCreateSwitch(switch, commit_ok) ==
    /\ EnvEnabled
    /\ LET c == create_switch(switchs, next_id, switch, commit_ok)
       IN /\ switchs' = c.switchs
          /\ next_id' = c.next_id
    /\ env_ops' = env_ops + 1
    /\ UNCHANGED <<switchboards, request, pre, calls, history, crud, other, route_posts>>
    /\ UNCHANGED call_vars

\* The delete route of a switch.  The id the database gives next is the
\* engine's: a counter stays, a rowid comes back to the id after the
\* greatest that is left.
EnvDeleteSwitch(s) ==
    /\ EnvEnabled
    /\ s \in DOMAIN switchs
    /\ switchs' = delete_switch(switchs, s)
    /\ next_id' \in NextIdsAfterDelete(switchs, next_id, s)
    /\ env_ops' = env_ops + 1
    /\ UNCHANGED <<switchboards, request, pre, calls, history, crud, other, route_posts>>
    /\ UNCHANGED call_vars

\* What a device answers to the POST of the toggle route.
RouteResponses ==
    {[kind |-> "response", status_code |-> 200], [kind |-> "response", status_code |-> 500]}

\* The requests to the toggle route that other clients make during the call.
RouteRequests == {r \in Requests : Len(r) <= MaxRouteLen}

\* The toggle route, which does its POSTs and its writes without awaiting:
\* one request, every device giving the same answer.
EnvToggleSwitchs(req, resp) ==
    /\ EnvEnabled
    /\ \E r \in toggle_switchs(switchs, switchboards, req, [b \in DOMAIN switchboards |-> resp]) :
          /\ switchs' = r.switchs
          /\ route_posts' = route_posts \o r.posts
    /\ env_ops' = env_ops + 1
    /\ UNCHANGED <<switchboards, request, pre, calls, history, crud, other, next_id>>
    /\ UNCHANGED call_vars

\* The delete route of a switchboard.
EnvDeleteSwitchboard(b) ==
    /\ EnvEnabled
    /\ b \in DOMAIN switchboards
    /\ switchboards' = delete_switchboard_rows(switchboards, b)
    /\ switchs' = delete_switchboard_switchs(switchs, b)
    /\ env_ops' = env_ops + 1
    /\ UNCHANGED <<request, pre, calls, history, crud, other, route_posts, next_id>>
    /\ UNCHANGED call_vars

\* An address other than the ones the switchboards start with.
NewIpAddress == <<"ip of", "another device">>

\* The update route of a switchboard, with a new address.
EnvUpdateSwitchboard(b, commit_ok) ==
    /\ EnvEnabled
    /\ switchboards' = update_switchboard(switchboards, b, NewIpAddress, commit_ok).switchboards
    /\ env_ops' = env_ops + 1
    /\ UNCHANGED <<switchs, request, pre, calls, history, crud, other, route_posts, next_id>>
    /\ UNCHANGED call_vars

\* The id of a switchboard that is not in the table at the start.
NewSwitchboardId == "sb3"

\* The create route of a switchboard.
EnvCreateSwitchboard(b, commit_ok) ==
    /\ EnvEnabled
    /\ switchboards' = create_switchboard(switchboards, b, IpAddress(b), commit_ok).switchboards
    /\ env_ops' = env_ops + 1
    /\ UNCHANGED <<switchs, request, pre, calls, history, crud, other, route_posts, next_id>>
    /\ UNCHANGED call_vars

Next ==
    \/ Build
    \/ \E i \in 1..MaxSwitchId : TaskStart(i)
    \/ \E i \in 1..MaxSwitchId : \E resp \in ResponseKinds : TaskComplete(i, resp)
    \/ Rethrow
    \/ Join
    \/ \E req \in LockBatches : \E commits \in Commits(Len(req)) : EnvLock(req, commits)
    \/ \E s \in SwitchIds : \E update_data \in UpdateDatas : \E commit_ok \in BOOLEAN :
          EnvUpdateSwitch(s, update_data, commit_ok)
    \/ \E switch \in SwitchCreates : \E commit_ok \in BOOLEAN : EnvCreateSwitch(switch, commit_ok)
    \/ \E s \in SwitchIds : EnvDeleteSwitch(s)
    \/ \E req \in RouteRequests : \E resp \in RouteResponses : EnvToggleSwitchs(req, resp)
    \/ \E b \in SwitchboardIds : EnvDeleteSwitchboard(b)
    \/ \E b \in SwitchboardIds : \E commit_ok \in BOOLEAN : EnvUpdateSwitchboard(b, commit_ok)
    \/ \E b \in SwitchboardIds \cup {NewSwitchboardId} : \E commit_ok \in BOOLEAN :
          EnvCreateSwitchboard(b, commit_ok)

Spec == Init /\ [][Next]_vars

\* The call's own steps are taken as long as they can be: the event loop runs
\* every ready task, and every POST ends with a response, a network error or
\* its 5 s timeout.
FairSpec ==
    /\ Spec
    /\ WF_vars(Build)
    /\ WF_vars(\E i \in 1..MaxSwitchId : TaskStart(i))
    /\ WF_vars(\E i \in 1..MaxSwitchId : \E resp \in ResponseKinds : TaskComplete(i, resp))
    /\ WF_vars(Rethrow)
    /\ WF_vars(Join)

\* ------------------------------------------------------------- calls in sequence
\* Every dispatch of a call with these tasks succeeded.
AllSuccess(ts) == ts # <<>> /\ \A i \in 1..Len(ts) : ts[i].result.status = "success"

\* The client sends the same batch again once its call has returned: a new
\* call of process_toggle_request starts on the table as the last one left it.
Again ==
    /\ pc = "returned"
    /\ calls < MaxCalls
    /\ calls' = calls + 1
    /\ history' = Append(history, [pre |-> pre, switchs |-> switchs,
                                   success |-> AllSuccess(tasks), report |-> report])
    /\ pre' = switchs
    /\ pc' = "start"
    /\ switchs_by_switchboard' = <<>>
    /\ building_errors' = <<>>
    /\ tasks' = <<>>
    /\ requests_success' = <<>>
    /\ request_errors' = <<>>
    /\ update_errors' = <<>>
    /\ report' = <<>>
    /\ exc' = NoExc
    /\ posts' = <<>>
    /\ UNCHANGED <<switchs, switchboards, request, env_ops, crud, other, route_posts, next_id>>

NextSeq ==
    \/ Build
    \/ \E i \in 1..MaxSwitchId : TaskStart(i)
    \/ \E i \in 1..MaxSwitchId : \E resp \in Responses : TaskComplete(i, resp)
    \/ Join
    \/ Again

\* Calls one after the other, with no other handler in between.
SpecSeq == Init /\ [][NextSeq]_vars

\* ------------------------------------------------------------- direct operations
\* Outside a call env_ops counts the operations run so far.
\* One call of switch_crud.toggle, as update_database and the toggle route make.
CrudToggle(s, state, commit_ok) ==
    /\ env_ops < MaxCrudOps
    /\ LET t == toggle(switchs, s, state, commit_ok)
       IN /\ switchs' = t.switchs
          /\ crud' = [op |-> "toggle", switch_id |-> s, arg |-> <<state>>,
                      commit_ok |-> commit_ok, exc |-> t.exc]
    /\ pre' = switchs
    /\ env_ops' = env_ops + 1
    /\ UNCHANGED <<switchboards, request, calls, history, other, route_posts, next_id>>
    /\ UNCHANGED call_vars

\* The update route of a switch.
CrudUpdate(s, update_data, commit_ok) ==
    /\ env_ops < MaxCrudOps
    /\ LET u == update_switch(switchs, s, update_data, commit_ok)
       IN /\ switchs' = u.switchs
          /\ crud' = [op |-> "update", switch_id |-> s, arg |-> update_data,
                      commit_ok |-> commit_ok, exc |-> u.exc]
    /\ pre' = switchs
    /\ env_ops' = env_ops + 1
    /\ UNCHANGED <<switchboards, request, calls, history, other, route_posts, next_id>>
    /\ UNCHANGED call_vars

\* Ids a client may name that no row has ever had.
LockIds == SwitchIds \cup {MaxSwitchId + 1}

LockRequests ==
    {r \in UNION {[1..n -> LockIds \X BOOLEAN] : n \in 0..MaxSwitchId} :
        \A i, j \in 1..Len(r) : i # j => r[i][1] # r[j][1]}

\* One request to the lock route.
CrudLock(req, commits) ==
    /\ env_ops < MaxCrudOps
    /\ LET l == lock_switch(switchs, req, commits)
       IN /\ switchs' = l.switchs
          /\ crud' = [op |-> "lock_switch", arg |-> req, commits |-> commits,
                      exc |-> l.exc, errors |-> l.errors]
    /\ pre' = switchs
    /\ env_ops' = env_ops + 1
    /\ UNCHANGED <<switchboards, request, calls, history, other, route_posts, next_id>>
    /\ UNCHANGED call_vars

NextCrud ==
    \/ \E s \in SwitchIds : \E state \in BOOLEAN : \E commit_ok \in BOOLEAN :
          CrudToggle(s, state, commit_ok)
    \/ \E s \in SwitchIds : \E update_data \in UpdateDatas : \E commit_ok \in BOOLEAN :
          CrudUpdate(s, update_data, commit_ok)
    \/ \E req \in LockRequests : \E commits \in Commits(Len(req)) : CrudLock(req, commits)

\* No call of process_toggle_request is under way.
InitCrud == Init /\ request = <<>>

\* The operations on single switches, up to MaxCrudOps of them one after the
\* other, beginning on any table; pre is the table as it was when the last
\* of them began.
SpecCrud == InitCrud /\ [][NextCrud]_vars

\* ------------------------------------------------------------- any position
\* Switch.position is an Integer column with no constraint: positions below,
\* at the ends of and above the nickname table.
PositionsWide == {-8, -7, 0, 8, 9}

SwitchRowsWide ==
    [position : PositionsWide, state : BOOLEAN, locked : BOOLEAN,
     switchboard_id : SwitchboardIds]

SwitchTablesWide == UNION {[ids -> SwitchRowsWide] : ids \in SUBSET SwitchIds}

InitWide ==
    /\ switchs \in SwitchTablesWide
    /\ switchboards = [b \in SwitchboardIds |-> [ip_address |-> IpAddress(b)]]
    /\ request \in Requests
    /\ pc = "start"
    /\ switchs_by_switchboard = <<>>
    /\ building_errors = <<>>
    /\ tasks = <<>>
    /\ requests_success = <<>>
    /\ request_errors = <<>>
    /\ update_errors = <<>>
    /\ report = <<>>
    /\ exc = NoExc
    /\ posts = <<>>
    /\ pre = switchs
    /\ env_ops = 0
    /\ calls = 1
    /\ history = <<>>
    /\ crud = NoCrud
    /\ other = NoOther
    /\ route_posts = <<>>
    /\ next_id \in NextIds(switchs)

NextCall ==
    \/ Build
    \/ \E i \in 1..MaxSwitchId : TaskStart(i)
    \/ \E i \in 1..MaxSwitchId : \E resp \in Responses : TaskComplete(i, resp)
    \/ Join

\* One call, with no other handler, on tables with switches at any position.
SpecWide == InitWide /\ [][NextCall]_vars

\* One call, with no other handler, with every answer of Responses.
SpecCall == Init /\ [][NextCall]_vars

\* ------------------------------------------------------------- two calls at once
\* A second call of process_toggle_request about to start on batch r; the
\* fields of the record are the call's request and locals.
OtherStart(r) ==
    [pc |-> "start", request |-> r, switchs_by_switchboard |-> <<>>,
     building_errors |-> <<>>, tasks |-> <<>>, report |-> <<>>, exc |-> NoExc]

\* The two calls are about switch 1, on tables that hold at most that switch.
RaceTables == {t \in SwitchTables : DOMAIN t \subseteq {1}}

RaceRequests == {r \in Requests : DictKeys(r) \subseteq {1}}

InitRace ==
    /\ switchs \in RaceTables
    /\ switchboards = [b \in SwitchboardIds |-> [ip_address |-> IpAddress(b)]]
    /\ request \in RaceRequests
    /\ pc = "start"
    /\ switchs_by_switchboard = <<>>
    /\ building_errors = <<>>
    /\ tasks = <<>>
    /\ requests_success = <<>>
    /\ request_errors = <<>>
    /\ update_errors = <<>>
    /\ report = <<>>
    /\ exc = NoExc
    /\ posts = <<>>
    /\ pre = switchs
    /\ env_ops = 0
    /\ calls = 1
    /\ history = <<>>
    /\ crud = NoCrud
    /\ \E r \in RaceRequests : other = OtherStart(r)
    /\ route_posts = <<>>
    /\ next_id \in NextIds(switchs)

other_frame == <<switchboards, request, pc, switchs_by_switchboard, building_errors,
                 tasks, requests_success, request_errors, update_errors, report, exc,
                 pre, env_ops, calls, history, crud, route_posts, next_id>>

\* The second call up to its await (as Build).
OtherBuild ==
    /\ other.pc = "start"
    /\ LET b == build_switchs_by_switchboard(switchs, switchboards, other.request)
       IN other' = IF b.exc # NoExc
                   THEN [other EXCEPT !.pc = "raised", !.exc = b.exc]
                   ELSE [other EXCEPT !.pc = "await",
                                      !.switchs_by_switchboard = b.map,
                                      !.building_errors = b.errors,
                                      !.tasks = MakeTasks(b.map)]
    /\ UNCHANGED <<switchs, posts>>
    /\ UNCHANGED other_frame

\* The i-th task of the second call up to the await of its POST (as TaskStart).
OtherTaskStart(i) ==
    /\ other.pc # "none"
    /\ i \in 1..Len(other.tasks)
    /\ other.tasks[i].phase = "created"
    /\ \A j \in 1..(i - 1) : other.tasks[j].phase # "created"
    /\ LET t == other.tasks[i]
           db_switchboard == get_switchboard(switchboards, t.switchboard_id)
       IN IF db_switchboard.exc # NoExc
          THEN /\ other' = [other EXCEPT
                     !.tasks[i].phase = "raised",
                     !.tasks[i].order = NumEnded(other.tasks) + 1,
                     !.tasks[i].result = [status |-> "raised", exc |-> db_switchboard.exc]]
               /\ UNCHANGED posts
          ELSE IF db_switchboard.id = NoSb
          THEN /\ other' = [other EXCEPT
                     !.tasks[i].phase = "done",
                     !.tasks[i].order = NumEnded(other.tasks) + 1,
                     !.tasks[i].result =
                         [switchboard_id |-> t.switchboard_id, status |-> "failed",
                          error |-> <<"not found in the database", 0>>]]
               /\ UNCHANGED posts
          ELSE /\ other' = [other EXCEPT !.tasks[i].phase = "sent"]
               /\ posts' = Append(posts, [endpoint |-> Endpoint(switchboards, t.switchboard_id),
                                          switchboard_id |-> t.switchboard_id,
                                          json |-> t.switchs])
    /\ UNCHANGED switchs
    /\ UNCHANGED other_frame

\* The POST of the i-th task of the second call gets its answer (as TaskComplete).
OtherTaskComplete(i, resp) ==
    /\ other.pc # "none"
    /\ i \in 1..Len(other.tasks)
    /\ other.tasks[i].phase = "sent"
    /\ other' = [other EXCEPT
          !.tasks[i].phase = "done",
          !.tasks[i].order = NumEnded(other.tasks) + 1,
          !.tasks[i].response = resp,
          !.tasks[i].result = RequestResult(other.tasks[i].switchboard_id,
                                            other.tasks[i].switchs, resp)]
    /\ UNCHANGED <<switchs, posts>>
    /\ UNCHANGED other_frame

\* gather returns in the second call; it updates the database and returns
\* its errors (as Join).
OtherJoin ==
    /\ other.pc = "await"
    /\ GatherReturns(other.tasks)
    /\ LET results == GatherResults(other.tasks)
           success == SelectStatus(results, TRUE)
           errors == SelectStatus(results, FALSE)
       IN \E u \in update_database(switchs, other.switchs_by_switchboard, success) :
             /\ switchs' = u.switchs
             /\ other' = IF u.exc # NoExc
                         THEN [other EXCEPT !.pc = "raised", !.exc = u.exc]
                         ELSE [other EXCEPT
                                 !.pc = "returned",
                                 !.report = ReportOf(other.building_errors, errors, u.errors)]
    /\ UNCHANGED posts
    /\ UNCHANGED other_frame

NextRace ==
    \/ Build
    \/ \E i \in 1..MaxSwitchId : TaskStart(i)
    \/ \E i \in 1..MaxSwitchId : \E resp \in Responses : TaskComplete(i, resp)
    \/ Join
    \/ OtherBuild
    \/ \E i \in 1..MaxSwitchId : OtherTaskStart(i)
    \/ \E i \in 1..MaxSwitchId : \E resp \in Responses : OtherTaskComplete(i, resp)
    \/ OtherJoin

\* Two calls of process_toggle_request interleaving at their awaits.
SpecRace == InitRace /\ [][NextRace]_vars

\* ------------------------------------------------------------- vocabulary of the properties
\* The grouping raised (no task was created, and nothing else raises then).
BuildRaised == pc = "raised" /\ tasks = <<>>

GroupingDone == pc # "start" /\ ~BuildRaised

\* Every task has ended, with a result or with an exception.
DispatchOver == pc # "start" /\ \A i \in 1..Len(tasks) : tasks[i].phase \in {"done", "raised"}

CallEnded == pc \in {"returned", "raised"}

\* The i-th pair of the request names a switch that was in the table at grouping.
Known(i) == request[i][1] \in DOMAIN pre

RowOf(i) == pre[request[i][1]]

LockedPair(i) == Known(i) /\ RowOf(i).locked = TRUE

\* The switchboards table held every id of SwitchboardIds at grouping.
BoardMissing(i) == Known(i) /\ RowOf(i).switchboard_id \notin SwitchboardIds

\* A pair the grouping is to accept: known, unlocked, on a switchboard, at a
\* position of the nickname table.
Accepted(i) ==
    /\ Known(i)
    /\ RowOf(i).locked = FALSE
    /\ RowOf(i).switchboard_id \in SwitchboardIds
    /\ PyIndexOk(switchs_nicknames, RowOf(i).position - 1)

NickOf(i) == PyIndex(switchs_nicknames, RowOf(i).position - 1)

AcceptedOn(b, n) ==
    {i \in 1..Len(request) : Accepted(i) /\ RowOf(i).switchboard_id = b /\ NickOf(i) = n}

\* The nicknames of the accepted pairs on switchboard b, and the state the
\* last of them asks for.
ExpectedKeys(b) == {switchs_nicknames[n] : n \in {m \in 1..Len(switchs_nicknames) : AcceptedOn(b, switchs_nicknames[m]) # {}}}

ExpectedState(b, n) ==
    LET last == CHOOSE i \in AcceptedOn(b, n) : \A j \in AcceptedOn(b, n) : j <= i
    IN StrState(request[last][2])

PostsTo(b) == {k \in 1..Len(posts) : posts[k].switchboard_id = b}

Count(seq, x) == Cardinality({k \in 1..Len(seq) : seq[k] = x})

\* The results gather handed back to the call.
Joined == requests_success \o request_errors

\* A step of the call itself (not of another handler).
CallStep ==
    \/ Build
    \/ \E i \in 1..MaxSwitchId : TaskStart(i)
    \/ \E i \in 1..MaxSwitchId : \E resp \in Responses : TaskComplete(i, resp)
    \/ Rethrow
    \/ Join

\* A commit of the write-back raised: toggle raised its 500, which ended the
\* call.  The spec's store is one whose writes take effect; what the claims
\* say of a call is checked on the calls whose commits returned.
CommitFailed == pc = "raised" /\ exc = Exc500Toggle

\* ------------------------------------------------------------- C1
\* The step changes the state of a switch only if the dispatch to the
\* switchboard of that switch has ended in success in this call.
WrittenAfterSuccess ==
    \A s \in DOMAIN switchs \cap DOMAIN switchs' :
        switchs'[s].state # switchs[s].state =>
            \E i \in 1..Len(tasks) :
                /\ tasks[i].switchboard_id = switchs[s].switchboard_id
                /\ tasks[i].result.status = "success"

\* C1: a step of the call changes the persisted state of a switch only if the
\* dispatch to its switchboard ended in success in this call; the call writes
\* no switch of a switchboard whose dispatch failed, whatever the other
\* handlers do meanwhile.
C1_FailedDispatchKeepsState == [][CallStep => WrittenAfterSuccess]_vars

\* In a call that no other handler interleaved with, one switchboard succeeded
\* and its switch changed; another failed and its switch, asked to change,
\* kept its state.
C1_Witness ==
    /\ pc = "returned"
    /\ env_ops = 0
    /\ \E s \in DOMAIN switchs : switchs[s].state # pre[s].state
    /\ \E i \in 1..Len(request) :
          /\ Known(i)
          /\ request[i][1] \in DOMAIN switchs
          /\ request[i][2] # RowOf(i).state
          /\ switchs[request[i][1]].state = RowOf(i).state
          /\ \E k \in 1..Len(request_errors) :
                request_errors[k].switchboard_id = RowOf(i).switchboard_id

\* ------------------------------------------------------------- C2
\* C2: process_toggle_request never raises: whatever the batch, the stores and
\* the dispatch outcomes, the call does not end with an exception (the 500 of
\* a commit that failed left aside).
C2_NeverRaises == pc = "raised" => CommitFailed

\* ------------------------------------------------------------- C3
\* C3: once the grouping is done, every pair whose switch was locked has
\* exactly one 'locked' error, and every entry of the grouped map comes from a
\* pair that is not locked (a locked pair inserts nothing).
C3_LockedPairSkipped ==
    GroupingDone =>
        /\ \A i \in 1..Len(request) :
              LockedPair(i) => Count(building_errors, ErrSwitchLocked(request[i][1])) = 1
        /\ \A m \in 1..Len(switchs_by_switchboard) :
              \A e \in 1..Len(switchs_by_switchboard[m][2]) :
                 AcceptedOn(switchs_by_switchboard[m][1],
                            switchs_by_switchboard[m][2][e][1]) # {}

\* ------------------------------------------------------------- C4
\* C4: when every switch of a (non-empty) batch exists and is locked, no POST is
\* issued, and the report is one 'locked' error per pair.
C4_AllLockedSendsNothing ==
    (request # <<>> /\ \A i \in 1..Len(request) : LockedPair(i)) =>
        /\ posts = <<>>
        /\ pc = "returned" =>
              report = [i \in 1..Len(request) |-> ErrSwitchLocked(request[i][1])]

\* ------------------------------------------------------------- C5
\* The pairs of the request whose switch id is unknown, in the request's order.
UnknownPairs == SelectSeq(request, LAMBDA pair : pair[1] \notin DOMAIN pre)

IsNotFoundError(e) == e.msg = ErrSwitchNotFound(0).msg

\* C5: an unknown switch id never makes the grouping raise (it raises only for
\* a known switch whose switchboard or position cannot be resolved); the
\* grouping's 'not found' errors are exactly one per unknown id, in order, and
\* every accepted pair still has its entry.  For a batch of unknown ids only:
\* no task, no POST, no exception, the table as it was when the call began
\* (the call never suspends, so no other handler writes it either), and the
\* report is one 'not found' error per id.
C5_UnknownIdsReported ==
    /\ BuildRaised =>
          \E i \in 1..Len(request) :
             Known(i) /\ (BoardMissing(i) \/ ~PyIndexOk(switchs_nicknames, RowOf(i).position - 1))
    /\ GroupingDone =>
          /\ SelectSeq(building_errors, IsNotFoundError)
                = [k \in 1..Len(UnknownPairs) |-> ErrSwitchNotFound(UnknownPairs[k][1])]
          /\ \A i \in 1..Len(request) :
                Accepted(i) =>
                   /\ DictHas(switchs_by_switchboard, RowOf(i).switchboard_id)
                   /\ DictHas(DictGet(switchs_by_switchboard, RowOf(i).switchboard_id), NickOf(i))
    /\ (\A i \in 1..Len(request) : ~Known(i)) =>
          /\ tasks = <<>> /\ posts = <<>> /\ pc # "raised"
          /\ switchs = pre
          /\ pc = "returned" =>
                report = [i \in 1..Len(request) |-> ErrSwitchNotFound(request[i][1])]

\* A batch of two unknown ids has returned its two errors.
C5_Witness ==
    /\ pc = "returned"
    /\ Len(request) = 2
    /\ \A i \in 1..Len(request) : ~Known(i)
    /\ Len(report) = 2

\* ------------------------------------------------------------- C6
\* C6: a pair whose switch exists but whose switchboard cannot be resolved gets
\* an error string and is skipped: the grouping does not raise for it.
C6_MissingSwitchboardSkipped ==
    \A i \in 1..Len(request) :
        (pc # "start" /\ BoardMissing(i)) =>
            /\ ~(BuildRaised /\ exc = Exc404Switchboard)
            /\ GroupingDone =>
                  Count(building_errors, ErrSwitchboardNotFound(RowOf(i).switchboard_id)) >= 1

\* ------------------------------------------------------------- C7
\* C7: the report is the errors of the grouping, then those of the dispatch,
\* then those of the write-back, none missing.
C7_ReportHasAllStages ==
    pc = "returned" => report = building_errors \o request_errors \o update_errors

\* ------------------------------------------------------------- C8
\* C8: no switchboard gets more than one POST; each POST's body is the map of
\* the batch's accepted switches on its switchboard; and once the dispatch is
\* over, a switchboard got exactly one POST if it has an accepted switch and
\* none otherwise.
C8_OnePostPerSwitchboard ==
    /\ \A b \in SwitchboardIds : Cardinality(PostsTo(b)) <= 1
    /\ \A k \in 1..Len(posts) :
          /\ DictKeys(posts[k].json) = ExpectedKeys(posts[k].switchboard_id)
          /\ \A e \in 1..Len(posts[k].json) :
                posts[k].json[e][2] = ExpectedState(posts[k].switchboard_id, posts[k].json[e][1])
    /\ (DispatchOver /\ ~BuildRaised) =>
          \A b \in SwitchboardIds :
             Cardinality(PostsTo(b)) = IF ExpectedKeys(b) # {} THEN 1 ELSE 0

\* ------------------------------------------------------------- C9
\* C9: once the call and all its tasks have ended, every targeted switchboard
\* has exactly one outcome among the results joined by the call, whatever
\* happened to the other switchboards' dispatches.
C9_EveryTargetHasOutcome ==
    (CallEnded /\ DispatchOver) =>
        \A i \in 1..Len(tasks) :
            Cardinality({k \in 1..Len(Joined) :
                            Joined[k].switchboard_id = tasks[i].switchboard_id}) = 1

\* ------------------------------------------------------------- C10
\* C10: every call eventually completes with a report (given that every POST
\* gets an answer, as FairSpec states; the call that a failed commit ends
\* left aside).
C10_CallCompletesWithReport == <>(pc = "returned" \/ CommitFailed)

\* ------------------------------------------------------------- C11
\* The data model's rule on positions held when the call began: no two
\* switches of one switchboard share a position.
UniquePositions ==
    \A s, t \in DOMAIN pre :
        (s # t /\ pre[s].switchboard_id \in SwitchboardIds
               /\ pre[s].switchboard_id = pre[t].switchboard_id)
            => pre[s].position # pre[t].position

\* The dispatch to switchboard b ended with this status in this call.
Dispatched(b, status) ==
    \E i \in 1..Len(tasks) :
        tasks[i].switchboard_id = b /\ tasks[i].result.status = status

\* C11: after a call that no other handler interleaved with and no commit of
\* which failed, on a table that
\* respects the rule on positions, every unlocked switch of the batch on a
\* switchboard whose dispatch succeeded has the state the batch asked for, and
\* every switch of the batch on a switchboard whose dispatch failed has the
\* state it had before.
C11_SucceedingWrittenFailingKept ==
    (CallEnded /\ DispatchOver /\ env_ops = 0 /\ UniquePositions /\ ~CommitFailed) =>
        \A i \in 1..Len(request) :
            Known(i) =>
                /\ (RowOf(i).locked = FALSE /\ Dispatched(RowOf(i).switchboard_id, "success"))
                      => switchs[request[i][1]].state = request[i][2]
                /\ Dispatched(RowOf(i).switchboard_id, "failed")
                      => switchs[request[i][1]].state = RowOf(i).state

\* ------------------------------------------------------------- C12
\* An entry of the report that is the failed result of a dispatch.
IsTransportFailure(e) == "status" \in DOMAIN e /\ e.status = "failed"

TransportFailures(b) ==
    {k \in 1..Len(report) : IsTransportFailure(report[k]) /\ report[k].switchboard_id = b}

\* C12: the report of a call has exactly one transport-failure entry, naming
\* the switchboard, for every switchboard whose dispatch failed, and none for
\* any other; a call whose only switchboard answers 500 returns a report with
\* exactly one such entry.
C12_OneEntryPerFailedSwitchboard ==
    /\ pc = "returned" =>
          \A b \in SwitchboardIds :
             Cardinality(TransportFailures(b)) = IF Dispatched(b, "failed") THEN 1 ELSE 0
    /\ (CallEnded /\ Len(tasks) = 1
                  /\ tasks[1].response = [kind |-> "response", status_code |-> 500]) =>
          /\ pc = "returned"
          /\ Cardinality({k \in 1..Len(report) : IsTransportFailure(report[k])}) = 1
          /\ TransportFailures(tasks[1].switchboard_id) # {}

\* Two switches of one switchboard were sent in one POST, the switchboard
\* answered 500, and the report is the one entry of that switchboard.
C12_Witness ==
    /\ pc = "returned"
    /\ Len(request) = 2
    /\ \A i \in 1..Len(request) : Accepted(i)
    /\ Len(tasks) = 1
    /\ tasks[1].response = [kind |-> "response", status_code |-> 500]
    /\ Len(report) = 1
    /\ TransportFailures(tasks[1].switchboard_id) = {1}

\* ------------------------------------------------------------- C13
\* The table when the client's first call began.
FirstPre == IF history = <<>> THEN pre ELSE history[1].pre

\* Every pair of the (non-empty) batch asks an unlocked switch on a
\* switchboard for the state it had when the first call began.
IdemBatch ==
    /\ request # <<>>
    /\ \A i \in 1..Len(request) :
          /\ request[i][1] \in DOMAIN FirstPre
          /\ FirstPre[request[i][1]].locked = FALSE
          /\ FirstPre[request[i][1]].switchboard_id \in SwitchboardIds
          /\ FirstPre[request[i][1]].state = request[i][2]

\* C13: for a batch that asks unlocked switches for the state they have, on a
\* table that respects the rule on positions, sent once or twice in sequence:
\* the switches have that state at every moment; and each run whose dispatches
\* all succeeded (after runs whose dispatches all succeeded) and whose commits
\* returned returns, with an empty report.
C13_Idempotent ==
    (IdemBatch /\ UniquePositions) =>
        /\ \A i \in 1..Len(request) : switchs[request[i][1]].state = request[i][2]
        /\ \A h \in 1..Len(history) :
              history[h].success =>
                 /\ history[h].report = <<>>
                 /\ \A i \in 1..Len(request) :
                       history[h].switchs[request[i][1]].state = request[i][2]
        /\ (CallEnded /\ AllSuccess(tasks) /\ ~CommitFailed
                      /\ \A h \in 1..Len(history) : history[h].success) =>
              pc = "returned" /\ report = <<>>

\* The second of two runs of such a batch of two switches has returned, every
\* dispatch of both runs having succeeded.
C13_Witness ==
    /\ IdemBatch /\ UniquePositions
    /\ Len(request) = 2
    /\ calls = 2
    /\ pc = "returned"
    /\ AllSuccess(tasks)
    /\ history[1].success
    /\ report = <<>>

\* ------------------------------------------------------------- C14
\* The switch of the i-th pair was unlocked at grouping, and another handler
\* has locked it since; it is still the row of its switchboard and position.
LockedMidFlight(i) ==
    /\ Known(i)
    /\ RowOf(i).locked = FALSE
    /\ request[i][1] \in DOMAIN switchs
    /\ switchs[request[i][1]].locked = TRUE
    /\ switchs[request[i][1]].switchboard_id = RowOf(i).switchboard_id
    /\ switchs[request[i][1]].position = RowOf(i).position

\* The write-back ran (or began and raised) with the success of switchboard b.
WriteBackRanFor(b) ==
    \E k \in 1..Len(requests_success) : requests_success[k].switchboard_id = b

\* C14: the lock is looked at only at grouping: a switch unlocked at grouping
\* and locked before the write-back, whose switchboard's dispatch succeeded,
\* is written with the desired state all the same, and the call does not
\* raise (no commit having failed).  update_database writes through
\* switch_crud.toggle, which looks at the lock again and raises 403.
C14_LockedMidFlightStillWritten ==
    \A i \in 1..Len(request) :
        (LockedMidFlight(i) /\ UniquePositions /\ CallEnded /\ ~CommitFailed
                            /\ WriteBackRanFor(RowOf(i).switchboard_id)) =>
            /\ switchs[request[i][1]].state = request[i][2]
            /\ pc # "raised"

\* ------------------------------------------------------------- C15
\* C15: no direct operation changes the state of a switch that was locked when
\* the operation began.
C15_LockedStateKept ==
    crud.op # "none" =>
        \A s \in DOMAIN pre :
            pre[s].locked = TRUE =>
                s \in DOMAIN switchs /\ switchs[s].state = pre[s].state

\* ------------------------------------------------------------- C16
\* The step leaves both tables as they are, but for the state of switches.
OnlyStateWritten ==
    /\ switchboards' = switchboards
    /\ DOMAIN switchs' = DOMAIN switchs
    /\ \A s \in DOMAIN switchs : [switchs'[s] EXCEPT !.state = switchs[s].state] = switchs[s]

\* C16: no step of a call creates or deletes a switch or a switchboard, or
\* changes any field other than the state of switches.
C16_CallWritesOnlyState == [][CallStep => OnlyStateWritten]_vars

\* A call that no other handler interleaved with has changed the state of a
\* switch; the rows are the same otherwise.
C16_Witness ==
    /\ pc = "returned"
    /\ env_ops = 0
    /\ \E s \in DOMAIN switchs : switchs[s].state # pre[s].state
    /\ DOMAIN switchs = DOMAIN pre
    /\ \A s \in DOMAIN switchs : [switchs[s] EXCEPT !.state = pre[s].state] = pre[s]

\* ------------------------------------------------------------- C17
\* C17: switch_crud.toggle raises the 403 for a locked switch and the 404 for
\* an unknown id, the table unchanged in both cases; for an unlocked switch it
\* raises nothing, sets that switch's state to the value asked for, and
\* changes nothing else, when its commit returns; when its commit raises, it
\* raises the 500 and the table is unchanged.
C17_ToggleContract ==
    crud.op = "toggle" =>
        LET s == crud.switch_id
        IN /\ s \notin DOMAIN pre => crud.exc = Exc404Switch /\ switchs = pre
           /\ (s \in DOMAIN pre /\ pre[s].locked = TRUE) =>
                 crud.exc = Exc403Locked /\ switchs = pre
           /\ (s \in DOMAIN pre /\ pre[s].locked = FALSE /\ crud.commit_ok) =>
                 /\ crud.exc = NoExc
                 /\ switchs = [pre EXCEPT ![s].state = crud.arg[1]]
           /\ (s \in DOMAIN pre /\ pre[s].locked = FALSE /\ ~crud.commit_ok) =>
                 crud.exc = Exc500Toggle /\ switchs = pre

\* toggle has just changed the state of an unlocked switch, next to another
\* switch.
C17_Witness ==
    /\ crud.op = "toggle"
    /\ crud.exc = NoExc
    /\ crud.switch_id \in DOMAIN pre
    /\ switchs[crud.switch_id].state # pre[crud.switch_id].state
    /\ Cardinality(DOMAIN switchs) = 2

\* ------------------------------------------------------------- C18
\* gather has returned and the call has split the results.
JoinRan ==
    \/ pc = "returned"
    \/ pc = "raised" /\ tasks # <<>> /\ \A i \in 1..Len(tasks) : tasks[i].phase = "done"

\* C18: the result of every dispatch that has ended is a success or a
\* failure; it is a success exactly when the POST got a response with a status
\* in 200..299 (a timeout, a network error and any other status give a
\* failure); and the call puts it in exactly one of its two lists, the one of
\* its status.
C18_SuccessIff2xx ==
    \A i \in 1..Len(tasks) :
        tasks[i].phase = "done" =>
            /\ tasks[i].result.status \in {"success", "failed"}
            /\ tasks[i].result.status = "success"
                  <=> (/\ tasks[i].response.kind = "response"
                       /\ tasks[i].response.status_code \in 200..299)
            /\ JoinRan =>
                  /\ Count(requests_success, tasks[i].result)
                        = IF tasks[i].result.status = "success" THEN 1 ELSE 0
                  /\ Count(request_errors, tasks[i].result)
                        = IF tasks[i].result.status = "success" THEN 0 ELSE 1

\* One switchboard answered 204 and is a success, another answered 302 and is
\* a failure, and the call has returned.
C18_Witness ==
    /\ pc = "returned"
    /\ \E i, j \in 1..Len(tasks) :
          /\ tasks[i].response = [kind |-> "response", status_code |-> 204]
          /\ tasks[i].result.status = "success"
          /\ tasks[j].response = [kind |-> "response", status_code |-> 302]
          /\ tasks[j].result.status = "failed"

\* ------------------------------------------------------------- C19
\* C19: a task that has run its lookup and issued no POST (its switchboard was
\* no longer in the table) has ended with a 'failed' result, it has not
\* raised, and the call has not ended with an exception of the dispatch.
C19_UnresolvedSwitchboardFails ==
    \A i \in 1..Len(tasks) :
        (tasks[i].phase # "created" /\ PostsTo(tasks[i].switchboard_id) = {}) =>
            /\ tasks[i].phase = "done"
            /\ tasks[i].result.status = "failed"
            /\ ~(pc = "raised" /\ exc = Exc404Switchboard)

\* ------------------------------------------------------------- C20
\* C20: every failed result of a dispatch has the four keys switchboard_id,
\* status, error and payload_sent: the id of its switchboard, the tag
\* 'failed', the text of the exception caught, and the payload of the POST
\* that was issued; the call's list of failed results holds it as such.
C20_FailureCarriesFourFields ==
    /\ \A i \in 1..Len(tasks) :
          (tasks[i].phase = "done" /\ tasks[i].result.status # "success") =>
              /\ DOMAIN tasks[i].result = {"switchboard_id", "status", "error", "payload_sent"}
              /\ tasks[i].result.switchboard_id = tasks[i].switchboard_id
              /\ tasks[i].result.status = "failed"
              /\ tasks[i].result.error = ErrorText(tasks[i].response)
              /\ \E k \in PostsTo(tasks[i].switchboard_id) :
                    posts[k].json = tasks[i].result.payload_sent
    /\ \A k \in 1..Len(request_errors) :
          /\ DOMAIN request_errors[k] = {"switchboard_id", "status", "error", "payload_sent"}
          /\ \E i \in 1..Len(tasks) : tasks[i].result = request_errors[k]

\* One POST met a network error, another a timeout, and the call holds both
\* failed results.
C20_Witness ==
    /\ Len(request_errors) = 2
    /\ \E i, j \in 1..Len(tasks) :
          /\ tasks[i].response.kind = "network_error"
          /\ tasks[j].response.kind = "timeout"
          /\ tasks[i].result.status = "failed"
          /\ tasks[j].result.status = "failed"

\* ------------------------------------------------------------- C21
\* The switch of the i-th pair, unlocked and on a switchboard at grouping, has
\* been deleted since.
DeletedMidFlight(i) ==
    /\ Accepted(i)
    /\ request[i][1] \notin DOMAIN switchs

\* The switch of the j-th pair is as it was at grouping, but for its state.
RowKept(j) ==
    /\ Accepted(j)
    /\ request[j][1] \in DOMAIN switchs
    /\ [switchs[request[j][1]] EXCEPT !.state = RowOf(j).state] = RowOf(j)

\* C21: when the write-back has run for the switchboard of a switch deleted
\* since the grouping (on a table that respects the rule on positions),
\* update_database has returned with exactly one error naming the switch's
\* nickname and switchboard, and every other unlocked switch of the batch on
\* a switchboard whose dispatch succeeded has the state asked for.
C21_ReconcileMissReported ==
    \A i \in 1..Len(request) :
        (DeletedMidFlight(i) /\ UniquePositions /\ ~CommitFailed
                             /\ WriteBackRanFor(RowOf(i).switchboard_id)) =>
            /\ pc = "returned"
            /\ Count(update_errors, ErrReconcileMiss(NickOf(i), RowOf(i).switchboard_id)) = 1
            /\ \A j \in 1..Len(request) :
                  (RowKept(j) /\ WriteBackRanFor(RowOf(j).switchboard_id))
                      => switchs[request[j][1]].state = request[j][2]

\* ------------------------------------------------------------- C22
\* A POST is issued only once the grouping is over, with the whole payload
\* the grouping made for its switchboard; and the results are split only when
\* every task of the call has ended with its result.
StagesInOrder ==
    /\ posts # <<>> =>
          /\ pc # "start"
          /\ \A k \in 1..Len(posts) :
                posts[k].json = DictGet(switchs_by_switchboard, posts[k].switchboard_id)
    /\ (\/ requests_success # <<>>
        \/ request_errors # <<>>
        \/ pc = "returned")
          => \A i \in 1..Len(tasks) : tasks[i].phase = "done"

\* The step writes the switchs table only if every task of the call has ended
\* with its result.
WrittenAfterJoin ==
    switchs' # switchs => \A i \in 1..Len(tasks) : tasks[i].phase = "done"

\* C22: a POST is issued only once the grouping is over, with the whole
\* payload the grouping made for its switchboard; the results are split, and
\* a step of the call writes a switch's state, only when every task of the
\* call has ended with its result.
C22_JoinBarrier == []StagesInOrder /\ [][CallStep => WrittenAfterJoin]_vars

\* In a call that no other handler interleaved with, the second of two
\* dispatches ended first, both succeeded, and the call then wrote the states
\* of both switches.
C22_Witness ==
    /\ pc = "returned"
    /\ env_ops = 0
    /\ Len(tasks) = 2
    /\ tasks[1].order = 2
    /\ \A s \in DOMAIN pre : s \in DOMAIN switchs /\ switchs[s].state # pre[s].state
    /\ Cardinality(DOMAIN pre) = 2

\* ------------------------------------------------------------- C23
\* The i-th and the j-th pair, both accepted, resolve to the same switchboard
\* and nickname, and no later pair of the batch resolves to them.
Colliding(i, j) ==
    /\ i < j
    /\ Accepted(i) /\ Accepted(j)
    /\ RowOf(i).switchboard_id = RowOf(j).switchboard_id
    /\ NickOf(i) = NickOf(j)
    /\ \A k \in (j + 1)..Len(request) :
          ~(/\ Known(k)
            /\ RowOf(k).switchboard_id = RowOf(j).switchboard_id
            /\ RowOf(k).position = RowOf(j).position)

\* C23: when two accepted pairs resolve to one switchboard and nickname, the
\* grouped map has one entry for them, holding the state of the later pair,
\* the POST to the switchboard carries that entry, and no error of the
\* grouping is about either pair.
C23_LaterPairWins ==
    GroupingDone =>
        \A i, j \in 1..Len(request) :
            Colliding(i, j) =>
                LET b == RowOf(j).switchboard_id
                    n == NickOf(j)
                IN /\ Cardinality(DictIdx(DictGet(switchs_by_switchboard, b), n)) = 1
                   /\ DictGet(DictGet(switchs_by_switchboard, b), n) = StrState(request[j][2])
                   /\ \A k \in PostsTo(b) : DictGet(posts[k].json, n) = StrState(request[j][2])
                   /\ \A e \in 1..Len(building_errors) :
                         building_errors[e].switch_id \notin {request[i][1], request[j][1]}

\* Two switches at one position of one switchboard were asked for opposite
\* states, and the POST carried the state of the later pair only.
C23_Witness ==
    \E i, j \in 1..Len(request) :
        /\ Colliding(i, j)
        /\ request[i][2] # request[j][2]
        /\ \E k \in PostsTo(RowOf(j).switchboard_id) :
              posts[k].json = <<<<NickOf(j), StrState(request[j][2])>>>>
        /\ building_errors = <<>>

\* ------------------------------------------------------------- C24
\* C24: once the grouping has run on a batch with a switch whose position is
\* outside 1..8, the call has ended with the IndexError of the grouping, no
\* task created.
C24_OutOfRangePositionRaises ==
    \A i \in 1..Len(request) :
        (pc # "start" /\ Known(i) /\ RowOf(i).position \notin 1..8) =>
            BuildRaised /\ exc = "IndexError"

\* ------------------------------------------------------------- C25
\* The pairs of the batch that the grouping enters under switchboard b and
\* nickname n (it enters locked switches too).
EnteredOn(b, n) ==
    {i \in 1..Len(request) :
        /\ Known(i)
        /\ RowOf(i).switchboard_id = b
        /\ PyIndexOk(switchs_nicknames, RowOf(i).position - 1)
        /\ NickOf(i) = n}

Nicknames == {switchs_nicknames[m] : m \in 1..Len(switchs_nicknames)}

\* C25: every key of every POST's body is one of the eight nicknames, every
\* value is "ON" or "OFF", and it is "ON" exactly when the last pair of the
\* batch entered under that switchboard and nickname asks for true; the
\* write-back never meets a state that is neither.
C25_PayloadWellFormed ==
    /\ \A k \in 1..Len(posts) :
          \A e \in 1..Len(posts[k].json) :
             LET n == posts[k].json[e][1]
                 v == posts[k].json[e][2]
                 from == EnteredOn(posts[k].switchboard_id, n)
             IN /\ n \in Nicknames
                /\ v \in {"ON", "OFF"}
                /\ from # {}
                /\ (v = "ON") = request[CHOOSE i \in from : \A j \in from : j <= i][2]
    /\ exc # "TypeError"

\* A switch at position 0 was asked for true: its switchboard got relay8 ON
\* and the call returned.
C25_Witness ==
    /\ pc = "returned"
    /\ \E i \in 1..Len(request) :
          /\ Known(i)
          /\ RowOf(i).position = 0
          /\ request[i][2] = TRUE
          /\ \E k \in PostsTo(RowOf(i).switchboard_id) :
                posts[k].json = <<<<"relay8", "ON">>>>

\* ------------------------------------------------------------- C26
\* C26: the call changes the state of no switch whose id is not a key of the
\* request, whatever the positions in the table.
C26_OnlyRequestedSwitchesWritten ==
    \A s \in DOMAIN switchs :
        switchs[s].state # pre[s].state => s \in DictKeys(request)

\* ------------------------------------------------------------- C27
\* The two calls ask the same unlocked switch, on a switchboard, for opposite
\* states.
OppositeCalls ==
    /\ other.pc # "none"
    /\ Len(request) = 1 /\ Len(other.request) = 1
    /\ request[1][1] = other.request[1][1]
    /\ request[1][2] # other.request[1][2]
    /\ Accepted(1)

\* C27: when both calls have returned, all their dispatches successful, the
\* switch's state is the one of the last POST the device received.
C27_LastReceivedWins ==
    (/\ OppositeCalls
     /\ pc = "returned" /\ other.pc = "returned"
     /\ AllSuccess(tasks) /\ AllSuccess(other.tasks)) =>
        switchs[request[1][1]].state = (posts[Len(posts)].json[1][2] = "ON")

\* ------------------------------------------------------------- C28
\* What each switchboard answered in this call (200 where the call sent it
\* nothing).
AnswerOf ==
    [b \in SwitchboardIds |->
        IF \E i \in 1..Len(tasks) : tasks[i].switchboard_id = b /\ tasks[i].phase = "done"
        THEN tasks[CHOOSE i \in 1..Len(tasks) : tasks[i].switchboard_id = b].response
        ELSE [kind |-> "response", status_code |-> 200]]

PostsOf(seq) == {seq[k] : k \in 1..Len(seq)}

\* C28: when a call that no other handler interleaved with has ended, on a
\* table that respects the rule on positions, the route run on the same table
\* with the same batch and the same answers sends the same POSTs and leaves
\* the same table (no commit failing in either).
C28_RouteEquivalent ==
    (CallEnded /\ DispatchOver /\ env_ops = 0 /\ UniquePositions /\ ~CommitFailed) =>
        \A r \in toggle_switchs(pre, switchboards, request, AnswerOf) :
            r.exc # Exc500Toggle =>
                /\ PostsOf(r.posts) = PostsOf(posts)
                /\ r.switchs = switchs

\* ------------------------------------------------------------- C29
\* The outcome of the dispatch to the j-th switchboard of the map, found by
\* the switchboard's id alone.
OutcomeFor(j) ==
    tasks[CHOOSE i \in 1..Len(tasks) :
            tasks[i].switchboard_id = switchs_by_switchboard[j][1]].result

OutcomesInMapOrder == [j \in 1..Len(switchs_by_switchboard) |-> OutcomeFor(j)]

\* C29: once the join of a call that no other handler interleaved with has
\* run, the two lists of results, the table and the returned report are what
\* the map of the batch, the table at the start and each switchboard's outcome
\* give, the outcomes being read in the order of the map and not in the order
\* in which the dispatches ended.
C29_CompletionOrderIrrelevant ==
    (JoinRan /\ env_ops = 0) =>
        /\ requests_success = SelectStatus(OutcomesInMapOrder, TRUE)
        /\ request_errors = SelectStatus(OutcomesInMapOrder, FALSE)
        /\ \E u \in update_database(pre, switchs_by_switchboard,
                                    SelectStatus(OutcomesInMapOrder, TRUE)) :
              /\ u.switchs = switchs
              /\ u.exc = exc
              /\ pc = "returned" =>
                    report = building_errors \o SelectStatus(OutcomesInMapOrder, FALSE)

\* Two dispatches failed, the second one first, and the call returned.
C29_Witness ==
    /\ pc = "returned"
    /\ env_ops = 0
    /\ Len(tasks) = 2
    /\ tasks[1].order = 2
    /\ Len(request_errors) = 2
    /\ report = building_errors \o <<tasks[1].result, tasks[2].result>>

\* ------------------------------------------------------------- C30
\* The pairs of a lock request whose id no row had when the request came.
UnknownLockIds == {i \in 1..Len(crud.arg) : crud.arg[i][1] \notin DOMAIN pre}

\* The pairs of a lock request whose id had a row and whose commit raised.
FailedLockCommits ==
    {i \in 1..Len(crud.arg) : crud.arg[i][1] \in DOMAIN pre /\ ~crud.commits[i]}

\* C30: after a request to the lock route, the route has not raised; every id
\* of the request that had a row has locked at the value asked, whatever the
\* other ids, when its commit returned, and as it was when its commit raised;
\* there is one error per id with no row and one per commit that raised, each
\* naming its id; and nothing else of the table has changed, the state of
\* every switch included.
C30_LockPairsIndependent ==
    crud.op = "lock_switch" =>
        /\ crud.exc = NoExc
        /\ DOMAIN switchs = DOMAIN pre
        /\ \A i \in 1..Len(crud.arg) :
              crud.arg[i][1] \in DOMAIN pre =>
                  switchs[crud.arg[i][1]].locked
                      = IF crud.commits[i] THEN crud.arg[i][2] ELSE pre[crud.arg[i][1]].locked
        /\ Len(crud.errors) = Cardinality(UnknownLockIds \cup FailedLockCommits)
        /\ \A i \in UnknownLockIds \cup FailedLockCommits :
              \E k \in 1..Len(crud.errors) : crud.errors[k].switch_id = crud.arg[i][1]
        /\ \A s \in DOMAIN pre :
              /\ switchs[s].state = pre[s].state
              /\ switchs[s].position = pre[s].position
              /\ switchs[s].switchboard_id = pre[s].switchboard_id
              /\ (\A i \in 1..Len(crud.arg) : crud.arg[i][1] # s) =>
                    switchs[s].locked = pre[s].locked

\* A request naming first an id with no row, then a switch whose lock it
\* changes: one error, and the lock is changed.
C30_Witness ==
    /\ crud.op = "lock_switch"
    /\ Len(crud.arg) = 2
    /\ crud.arg[1][1] \notin DOMAIN pre
    /\ crud.arg[2][1] \in DOMAIN pre
    /\ crud.commits[2]
    /\ pre[crud.arg[2][1]].locked # crud.arg[2][2]
    /\ switchs[crud.arg[2][1]].locked = crud.arg[2][2]
    /\ Len(crud.errors) = 1

====
